---- MODULE Spec2Model ----
(***************************************************************************)
(* DorikLoader: the module orchestrator of dorik-modules.                  *)
(*                                                                         *)
(* Two variants of the orchestrator exist in the repository:               *)
(*   "loader"  - src/loader.js          (7 modules, global event handlers) *)
(*   "part000" - src/unnamed/part_000   (6 modules, lazy viewport loading) *)
(* The startup sequence (init, _performInit, loadModules, loadModule,      *)
(* initializeModules, fireReadyEvent) is the same code in both; they       *)
(* differ in the registry and in initOrder.                                *)
(*                                                                         *)
(* JavaScript is single threaded: an action of this model is one run of    *)
(* the code from an external event (a call, a script's onload/onerror, an  *)
(* init hook settling, a batch fetch settling) up to the next await on an  *)
(* external event.                                                         *)
(***************************************************************************)
EXTENDS Integers, Sequences, FiniteSets, TLC

\* ------------------------------------------------------------------ bounds

\* init() callers besides the automatic init() at DOM ready
MaxCallers == 1
\* loadModule() calls made from outside the startup sequence
MaxOnDemand == 1
\* IntersectionObserver callbacks delivered during the page's lifetime
MaxCallbacks == 2
\* beforeunload events delivered to the page
MaxTeardowns == 2
\* click and keydown events delivered to the document
MaxEvents == 2

\* ---------------------------------------------------------------- registry

Variants == {"loader", "part000"}

Descriptor(f, r, p, d) == [file |-> f, required |-> r, priority |-> p, depends |-> d]

\* src/loader.js modules: {...}
RegistryLoader ==
  [n \in {"config", "cache", "firebase", "tracking", "gallery", "forms", "lazy"} |->
     CASE n = "config"   -> Descriptor("config.min.js", TRUE, 1, {})
       [] n = "cache"    -> Descriptor("cache.min.js", TRUE, 2, {"config"})
       [] n = "firebase" -> Descriptor("firebase.min.js", TRUE, 3, {"config", "cache"})
       [] n = "tracking" -> Descriptor("tracking.min.js", FALSE, 4, {"config"})
       [] n = "gallery"  -> Descriptor("gallery.min.js", FALSE, 5, {"config", "cache", "firebase"})
       [] n = "forms"    -> Descriptor("forms.min.js", FALSE, 6, {"config"})
       [] n = "lazy"     -> Descriptor("lazy.min.js", FALSE, 7, {"config", "firebase"})]

\* src/unnamed/part_000 modules: {...}
RegistryPart000 ==
  [n \in {"config", "cache", "firebase", "tracking", "gallery", "forms"} |->
     CASE n = "config"   -> Descriptor("config.min.js", TRUE, 1, {})
       [] n = "cache"    -> Descriptor("cache.min.js", TRUE, 2, {"config"})
       [] n = "firebase" -> Descriptor("firebase.min.js", TRUE, 3, {"config", "cache"})
       [] n = "tracking" -> Descriptor("tracking.min.js", TRUE, 4, {"config"})
       [] n = "gallery"  -> Descriptor("gallery.min.js", FALSE, 5, {"config", "cache", "firebase", "tracking"})
       [] n = "forms"    -> Descriptor("forms.min.js", FALSE, 6, {"config", "tracking"})]

Registry(v) == IF v = "loader" THEN RegistryLoader ELSE RegistryPart000

\* the property order of the modules object literal (what Object.entries yields)
RegistryKeys(v) ==
  IF v = "loader"
    THEN <<"config", "cache", "firebase", "tracking", "gallery", "forms", "lazy">>
    ELSE <<"config", "cache", "firebase", "tracking", "gallery", "forms">>

DefaultCdnBase == "https://raw.githubusercontent.com/locpham1020/dorik-modules/main/"

\* every module name of the model: the registries' names and one name that
\* only init options can register
AllNames == {"config", "cache", "firebase", "tracking", "gallery", "forms", "lazy", "extra"}

\* ------------------------------------------------------- init(options) inputs

NoModules == [n \in {} |-> 0]

\* options objects passed to init(): cdnBase "" stands for an absent cdnBase,
\* keys is the property order of options.modules
NoOptions == [cdnBase |-> "", keys |-> <<>>, modules |-> NoModules]

OptionSets ==
  { NoOptions,
    [cdnBase |-> "https://cdn.example/", keys |-> <<>>, modules |-> NoModules],
    \* firebase made optional
    [cdnBase |-> "", keys |-> <<"firebase">>,
     modules |-> [n \in {"firebase"} |->
                    Descriptor("firebase.min.js", FALSE, 3, {"config", "cache"})]],
    \* gallery made required at firebase's priority (a tie)
    [cdnBase |-> "", keys |-> <<"gallery">>,
     modules |-> [n \in {"gallery"} |->
                    Descriptor("gallery.min.js", TRUE, 3, {"config", "cache", "firebase"})]],
    \* a new optional module at cache's priority (a tie), registered last
    [cdnBase |-> "", keys |-> <<"extra">>,
     modules |-> [n \in {"extra"} |->
                    Descriptor("extra.min.js", FALSE, 2, {"config"})]],
    \* tracking made required with a dependency that is attempted after it
    [cdnBase |-> "", keys |-> <<"tracking">>,
     modules |-> [n \in {"tracking"} |->
                    Descriptor("tracking.min.js", TRUE, 4, {"gallery"})]],
    \* tracking made optional and moved behind every other module
    [cdnBase |-> "", keys |-> <<"tracking">>,
     modules |-> [n \in {"tracking"} |->
                    Descriptor("tracking.min.js", FALSE, 8, {"config"})]] }

\* ------------------------------------------------------------------- state

VARIABLES
  variant,                \* which orchestrator file the page runs
  cdnBase,                \* DorikLoader.cdnBase
  modules,                \* DorikLoader.modules: name -> descriptor
  moduleKeys,             \* property order of DorikLoader.modules
  loadedModules,          \* DorikLoader.loadedModules
  initializationPromise,  \* "null" | "pending" | "true" | "false" | "rejected"
  performInitCount,       \* executions of _performInit
  pc,                     \* the startup sequence: "idle" | "fetching" | "hook" | "done"
  sortedModules,          \* loadModules: sortedModules (names)
  loadIdx,                \* loadModules: position of the for loop
  initIdx,                \* initializeModules: position of the for loop
  awaited,                \* the module whose script the startup sequence awaits ("": none)
  scripts,                \* name -> script elements dorik-module-<name> appended to head
  pending,                \* name -> scripts of it neither loaded nor failed yet
  pendingOnDemand,        \* name -> those of them that an on-demand loadModule awaits
  fetchLog,               \* the scripts the startup sequence appended, in order
  attempted,              \* names whose loadModules iteration has begun, in order
  failure,                \* name -> what console.error recorded for it
  hooksInvoked,           \* names passed to initializeModule, in order
  initialized,            \* names whose initializeModule call returned
  readyEvents,            \* detail.loadedModules of every dorik:ready dispatched
  DORIK_READY,            \* window.DORIK_READY
  callerResult,           \* init() caller -> "idle" | "pending" | what its promise settled to
  onDemandCalls,          \* loadModule() calls made from outside the startup sequence
  lateOverrides,          \* an init(options) call with overrides got the memoized promise
  observer,               \* the IntersectionObserver: "none" | "observing" | "disconnected"
  hasState,               \* window.DorikState is defined
  hasPreload,             \* window.DorikFirebase?.preloadProducts is defined
  configBatchSize,        \* window.DorikConfig.BATCH_SIZE (0: not set)
  processedContainers,    \* window.DorikState.processedContainers
  tasks,                  \* the handleIntersection invocations, one per callback
  batched,                \* container id -> processBatch calls whose batch holds it
  debug,                  \* window.DorikConfig.DEBUG
  intervals,              \* the interval timers that run: "cleanup", "performance"
  stateTimers,            \* the timers that window.DorikState.timers refers to
  cleanupMethods,         \* names whose module object has the method the teardown calls
  cleanupCalls,           \* name -> calls of that method
  teardowns,              \* beforeunload events delivered
  teardownErrors,         \* beforeunload listener runs that ended in a TypeError
  capabilities,           \* the capability methods the module objects define
  events,                 \* click and keydown events delivered
  lastEvent,              \* the event delivered last
  routed,                 \* the handlers handleGlobalClick called for it, in order
  prevented,              \* event.preventDefault() was called on it
  invoked,                \* the capability methods called for it, in order
  raised,                 \* one of its handlers ended in a TypeError
  capabilityCalls         \* capability method -> calls

vars == <<variant, cdnBase, modules, moduleKeys, loadedModules, initializationPromise,
          performInitCount, pc, sortedModules, loadIdx, initIdx, awaited, scripts,
          pending, pendingOnDemand, fetchLog, attempted, failure, hooksInvoked, initialized, readyEvents,
          DORIK_READY, callerResult, onDemandCalls, lateOverrides, observer, hasState, hasPreload,
          configBatchSize, processedContainers, tasks, batched, debug, intervals,
          stateTimers, cleanupMethods, cleanupCalls, teardowns, teardownErrors,
          capabilities, events, lastEvent, routed, prevented, invoked, raised,
          capabilityCalls>>

\* what the lazy-loading pipeline reads and writes
lazyVars == <<hasState, hasPreload, configBatchSize, processedContainers, tasks, batched>>

\* what the beforeunload listener reads and writes besides the observer
teardownVars == <<debug, intervals, stateTimers, cleanupMethods, cleanupCalls, teardowns,
                  teardownErrors>>

\* what the click and keydown handlers read and write
dispatchVars == <<capabilities, events, lastEvent, routed, prevented, invoked, raised,
                  capabilityCalls>>

\* what the startup sequence and loadModule read and write
startupVars == <<variant, cdnBase, modules, moduleKeys, loadedModules,
                 initializationPromise, performInitCount, pc, sortedModules, loadIdx,
                 initIdx, awaited, scripts, pending, pendingOnDemand, fetchLog, attempted,
                 failure, hooksInvoked, initialized, readyEvents, DORIK_READY,
                 callerResult, onDemandCalls, lateOverrides, observer>>

\* the modules that callers outside the startup sequence ask loadModule for
OnDemandNames == {"config", "gallery"}

\* the product containers of the page ([id^="container-"]), in DOM order
Containers == {1, 2, 3}

\* the IntersectionObserver callbacks
Callbacks == 1..MaxCallbacks

\* a handleIntersection invocation that has not started; k is
\* containersToLoad.length, n counts its processBatch calls, caught tells
\* while it runs whether its last processBatch call that returned went
\* through its catch
IdleTask == [state |-> "idle", list |-> <<>>, i |-> 0, k |-> 0, n |-> 0, caught |-> FALSE]

\* caller 0 is the automatic init() at DOM ready
Callers == 0..MaxCallers


\* ------------------------------------------------- the code's pure pieces

\* init: if (this.initializationPromise) return this.initializationPromise
InitGuardNever(promise) == FALSE
InitGuardSettled(promise) == promise \in {"true", "false", "rejected"}
InitGuard(promise) == promise # "null"

\* _performInit: if (options.cdnBase) this.cdnBase = options.cdnBase
CdnOverride(base, options) == IF options.cdnBase # "" THEN options.cdnBase ELSE base

\* _performInit: Object.assign(this.modules, options.modules): a descriptor of
\* options replaces the whole descriptor of the same name
ObjectAssign(mods, options) ==
  [n \in (DOMAIN mods) \cup (DOMAIN options.modules) |->
     IF n \in DOMAIN options.modules THEN options.modules[n] ELSE mods[n]]

\* Object.assign keeps the place of a property that exists and appends new ones
ObjectAssignKeys(keys, options) ==
  keys \o SelectSeq(options.keys, LAMBDA k : \A i \in 1..Len(keys) : keys[i] # k)

\* Array.prototype.sort with (a, b) => a.priority - b.priority is stable:
\* insertion of k after every element whose priority is not greater
InsertUnstable(sorted, k, mods) ==
  LET lt == {j \in 1..Len(sorted) : mods[sorted[j]].priority < mods[k].priority}
      i  == Cardinality(lt)
  IN  SubSeq(sorted, 1, i) \o <<k>> \o SubSeq(sorted, i + 1, Len(sorted))
InsertByPriority(sorted, k, mods) ==
  LET le == {j \in 1..Len(sorted) : mods[sorted[j]].priority <= mods[k].priority}
      i  == Cardinality(le)
  IN  SubSeq(sorted, 1, i) \o <<k>> \o SubSeq(sorted, i + 1, Len(sorted))

RECURSIVE SortPrefix(_, _, _)
SortPrefix(keys, mods, n) ==
  IF n = 0 THEN <<>> ELSE InsertByPriority(SortPrefix(keys, mods, n - 1), keys[n], mods)

\* loadModules: Object.entries(this.modules).sort(...)
SortByPriority(keys, mods) == SortPrefix(keys, mods, Len(keys))

\* loadModules: the dependency check (every dep of config.depends is loaded)
DepsMetAlways(cfg, loaded) == TRUE
DepsMetAny(cfg, loaded) == cfg.depends = {} \/ \E dep \in cfg.depends : dep \in loaded
DepsMet(cfg, loaded) == \A dep \in cfg.depends : dep \in loaded

\* loadModules catch: if (config.required) throw ...
RethrowLoadNever(cfg) == FALSE
RethrowLoadAlways(cfg) == TRUE
RethrowLoadFailure(cfg) == cfg.required

\* initializeModules catch: if (this.modules[moduleName]?.required) throw error
RethrowInitNever(mods, name) == FALSE
RethrowInitAlways(mods, name) == TRUE
RethrowInitFailure(mods, name) == name \in DOMAIN mods /\ mods[name].required

\* const initOrder = [...] of initializeModules
InitOrderByPriority(v) == sortedModules
InitOrder(v) ==
  IF v = "loader"
    THEN <<"config", "cache", "firebase", "tracking", "gallery", "forms", "lazy">>
    ELSE <<"config", "cache", "firebase", "tracking", "gallery", "forms">>

\* initializeModules: if (!this.loadedModules.has(moduleName)) continue
InitSkippedNever(name, loaded) == FALSE
InitSkipped(name, loaded) == name \notin loaded

\* _performInit catch: return false
CatchRethrows == "rejected"
CatchBoundary == "false"

\* ------------------------------------------- the startup sequence as data

\* the part of the state the startup sequence writes
Cur ==
  [pc |-> pc, loadIdx |-> loadIdx, initIdx |-> initIdx, awaited |-> awaited,
   loadedModules |-> loadedModules, attempted |-> attempted, failure |-> failure,
   scripts |-> scripts, pending |-> pending, pendingOnDemand |-> pendingOnDemand,
   fetchLog |-> fetchLog, hooksInvoked |-> hooksInvoked,
   initialized |-> initialized, readyEvents |-> readyEvents, ready |-> DORIK_READY,
   promise |-> initializationPromise, observer |-> observer]

\* loadModule up to its await: a script element is created and appended
\* (origin tells whether the startup sequence or another caller awaits it)
LoadModule(s, name, cfg, base, origin) ==
  LET s1 == [s EXCEPT !.scripts[name] = @ + 1, !.pending[name] = @ + 1]
  IN  IF origin = "startup"
        THEN [s1 EXCEPT !.fetchLog = Append(@, [name |-> name, url |-> <<base, cfg.file>>])]
        ELSE [s1 EXCEPT !.pendingOnDemand[name] = @ + 1]

\* _performInit catch block: the promise of the sequence settles
Abort(s) == [s EXCEPT !.pc = "done", !.awaited = "", !.promise = CatchBoundary]

\* fireReadyEvent
FireReadyEvent(s) ==
  [s EXCEPT !.readyEvents = Append(@, s.loadedModules), !.ready = TRUE]

\* part_000 setupLazyLoading: without window.DorikConfig nothing is observed.
\* The config init hook returns only when DorikConfig is defined.
SetupLazyLoading(s) ==
  IF variant = "part000" /\ "config" \in s.initialized
    THEN [s EXCEPT !.observer = "observing"]
    ELSE s

\* _performInit after initializeModules: the setup calls, fireReadyEvent, return true
Finish(s) ==
  [FireReadyEvent(SetupLazyLoading(s))
     EXCEPT !.pc = "done", !.awaited = "", !.promise = "true"]

\* initializeModules from position j up to the next await of an init hook
RECURSIVE InitStep(_, _, _, _)
InitStep(s, j, mods, order) ==
  IF j > Len(order) THEN Finish([s EXCEPT !.initIdx = j])
  ELSE IF InitSkipped(order[j], s.loadedModules) THEN InitStep(s, j + 1, mods, order)
  ELSE [s EXCEPT !.pc = "hook", !.initIdx = j, !.awaited = "",
                 !.hooksInvoked = Append(@, order[j])]

\* loadModules from position i up to the next await of a script
RECURSIVE LoadStep(_, _, _, _, _, _)
\* a loop that calls loadModule without awaiting it
LoadStepNoAwait(s, i, mods, sorted, base, order) ==
  IF i > Len(sorted) THEN InitStep([s EXCEPT !.loadIdx = i], 1, mods, order)
  ELSE
    LET name == sorted[i]
        cfg  == mods[name]
        s1   == [s EXCEPT !.loadIdx = i, !.attempted = Append(@, name)]
    IN  IF ~DepsMet(cfg, s.loadedModules)
          THEN LET s2 == [s1 EXCEPT !.failure[name] = "DependencyUnmet"]
               IN  IF RethrowLoadFailure(cfg)
                     THEN Abort(s2)
                     ELSE LoadStep(s2, i + 1, mods, sorted, base, order)
          ELSE LoadStep(LoadModule(s1, name, cfg, base, "startup"), i + 1, mods, sorted,
                        base, order)
LoadStep(s, i, mods, sorted, base, order) ==
  IF i > Len(sorted) THEN InitStep([s EXCEPT !.loadIdx = i], 1, mods, order)
  ELSE
    LET name == sorted[i]
        cfg  == mods[name]
        s1   == [s EXCEPT !.loadIdx = i, !.attempted = Append(@, name)]
    IN  IF ~DepsMet(cfg, s.loadedModules)
          THEN LET s2 == [s1 EXCEPT !.failure[name] = "DependencyUnmet"]
               IN  IF RethrowLoadFailure(cfg)
                     THEN Abort(s2)
                     ELSE LoadStep(s2, i + 1, mods, sorted, base, order)
          ELSE [LoadModule(s1, name, cfg, base, "startup")
                  EXCEPT !.pc = "fetching", !.awaited = name]

\* the awaited script's onload: loadedModules.add(name), next iteration
AfterScriptLoad(s, mods, sorted, base, order) ==
  LET name == sorted[s.loadIdx]
      s1   == [s EXCEPT !.loadedModules = @ \cup {name}, !.pending[name] = @ - 1]
  IN  LoadStep(s1, s.loadIdx + 1, mods, sorted, base, order)

\* the awaited script's onerror: loadModule rejects, the catch of loadModules runs
AfterScriptError(s, mods, sorted, base, order) ==
  LET name == sorted[s.loadIdx]
      s1   == [s EXCEPT !.failure[name] = "ModuleFetchFailed", !.pending[name] = @ - 1]
  IN  IF RethrowLoadFailure(mods[name])
        THEN Abort(s1)
        ELSE LoadStep(s1, s.loadIdx + 1, mods, sorted, base, order)

\* the awaited init hook returned or resolved
AfterHookResolve(s, mods, order) ==
  InitStep([s EXCEPT !.initialized = @ \cup {order[s.initIdx]}], s.initIdx + 1, mods, order)

\* the awaited init hook threw or rejected: the catch of initializeModules runs
AfterHookReject(s, mods, order) ==
  LET name == order[s.initIdx]
      s1   == [s EXCEPT !.failure[name] = "ModuleInitFailed"]
  IN  IF RethrowInitFailure(mods, name)
        THEN Abort(s1)
        ELSE InitStep(s1, s.initIdx + 1, mods, order)

Settled(p) == p \in {"true", "false", "rejected"}

\* the sequence's writes; every init() caller that awaits the shared promise
\* receives its value when it settles
Apply(s) ==
  /\ pc' = s.pc
  /\ loadIdx' = s.loadIdx
  /\ initIdx' = s.initIdx
  /\ awaited' = s.awaited
  /\ loadedModules' = s.loadedModules
  /\ attempted' = s.attempted
  /\ failure' = s.failure
  /\ scripts' = s.scripts
  /\ pending' = s.pending
  /\ pendingOnDemand' = s.pendingOnDemand
  /\ fetchLog' = s.fetchLog
  /\ hooksInvoked' = s.hooksInvoked
  /\ initialized' = s.initialized
  /\ readyEvents' = s.readyEvents
  /\ DORIK_READY' = s.ready
  /\ initializationPromise' = s.promise
  /\ observer' = s.observer

ResolveCallers(s, who) ==
  [c \in Callers |->
     IF c \in who \/ callerResult[c] = "pending"
       THEN (IF Settled(s.promise) THEN s.promise ELSE "pending")
       ELSE callerResult[c]]

\* ------------------------------------------ the lazy-loading pipeline as data

\* the page: container id lies at document offset 2 * (id - 1) and is 1 high,
\* window.innerHeight is 2; the scroll positions at which callbacks arrive
ScrollPositions == {0, 2}
InnerHeights == {2}

\* element.getBoundingClientRect() at a scroll position
BoundingClientRect(id, scrollY) ==
  [top |-> 2 * (id - 1) - scrollY, bottom |-> 2 * (id - 1) - scrollY + 1]

\* const batchSize = config?.BATCH_SIZE || 30
DefaultBatchSize == 30
BatchSize == IF configBatchSize # 0 THEN configBatchSize ELSE DefaultBatchSize

Abs(x) == IF x < 0 THEN -x ELSE x

\* getDistanceFromViewport
getDistanceFromViewport(rect, viewportHeight) ==
  IF rect.top >= 0 /\ rect.top <= viewportHeight THEN 0
  ELSE IF rect.top > viewportHeight THEN rect.top - viewportHeight
  ELSE Abs(rect.bottom)

\* handleIntersection: window.DorikState?.processedContainers.has(containerId)
AlreadyProcessed(id, processed) == hasState /\ id \in processed

\* the ids of Containers in DOM order
RECURSIVE DomOrder(_)
DomOrder(S) ==
  IF S = {} THEN <<>>
  ELSE LET m == CHOOSE x \in S : \A y \in S : x <= y IN <<m>> \o DomOrder(S \ {m})

\* handleIntersection: the entries.forEach that fills containersToLoad; the
\* entries arrive in the order the containers were observed (DOM order)
CollectContainers(visible, scrollY, viewportHeight, processed) ==
  LET keep == SelectSeq(DomOrder(Containers),
                        LAMBDA id : id \in visible /\ ~AlreadyProcessed(id, processed))
  IN  [k \in 1..Len(keep) |->
         [id |-> keep[k],
          distance |-> getDistanceFromViewport(BoundingClientRect(keep[k], scrollY),
                                               viewportHeight)]]

\* containersToLoad.sort((a, b) => a.distance - b.distance), a stable sort
InsertByDistance(sorted, e) ==
  LET le == {j \in 1..Len(sorted) : sorted[j].distance <= e.distance}
      i  == Cardinality(le)
  IN  SubSeq(sorted, 1, i) \o <<e>> \o SubSeq(sorted, i + 1, Len(sorted))

RECURSIVE SortDistPrefix(_, _)
SortDistPrefix(list, n) ==
  IF n = 0 THEN <<>> ELSE InsertByDistance(SortDistPrefix(list, n - 1), list[n])

SortByDistance(list) == SortDistPrefix(list, Len(list))

\* containersToLoad.slice(i, i + batchSize)
SliceOneMore(list, i, size) ==
  SubSeq(list, i + 1, IF i + size + 1 < Len(list) THEN i + size + 1 ELSE Len(list))
Slice(list, i, size) ==
  SubSeq(list, i + 1, IF i + size < Len(list) THEN i + size ELSE Len(list))

BatchIds(list, i) == {Slice(list, i, BatchSize)[k].id : k \in 1..Len(Slice(list, i, BatchSize))}

\* processBatch: containerIds.forEach(id => processedContainers.add(id))
MarkProcessed(processed, ids) == IF hasState THEN processed \cup ids ELSE processed

\* the for loop of handleIntersection from offset i up to the next await of
\* preloadProducts; l is [processed, batched, task]
RECURSIVE RunBatches(_, _)
RunBatches(l, i) ==
  IF i >= Len(l.task.list)
    THEN [l EXCEPT !.task = [state |-> "done", list |-> <<>>, i |-> 0,
                             k |-> l.task.k, n |-> l.task.n, caught |-> FALSE]]
    ELSE
      LET ids == BatchIds(l.task.list, i)
          l1  == [l EXCEPT !.batched = [c \in Containers |->
                                          IF c \in ids THEN @[c] + 1 ELSE @[c]],
                           !.task.i = i, !.task.n = @ + 1]
      IN  IF hasPreload
            THEN [l1 EXCEPT !.task.state = "awaiting"]
            ELSE RunBatches([l1 EXCEPT !.processed = MarkProcessed(@, ids)], i + BatchSize)

\* processBatch: preloadProducts resolved, the ids are marked, the loop of
\* handleIntersection goes on
AfterBatchResolve(l) ==
  RunBatches([l EXCEPT !.processed = MarkProcessed(@, BatchIds(l.task.list, l.task.i)),
                       !.task.caught = FALSE],
             l.task.i + BatchSize)

\* a processBatch without its catch: the rejection leaves handleIntersection
AfterBatchRejectRethrows(l) ==
  [l EXCEPT !.task = [state |-> "rejected", list |-> <<>>, i |-> 0, k |-> l.task.k,
                      n |-> l.task.n, caught |-> FALSE]]
\* processBatch: preloadProducts rejected, the catch logs the error and
\* processBatch returns, the loop of handleIntersection goes on
AfterBatchReject(l) ==
  RunBatches([l EXCEPT !.task.caught = TRUE], l.task.i + BatchSize)

LazyCur(t) == [processed |-> processedContainers, batched |-> batched, task |-> tasks[t]]

ApplyLazy(t, l) ==
  /\ processedContainers' = l.processed
  /\ batched' = l.batched
  /\ tasks' = [tasks EXCEPT ![t] = l.task]

\* ------------------------------------------------- the page teardown as data

\* the optional-chained calls of the beforeunload listener, in order
\* (part_000 calls DorikCache.clear, every other call is cleanup)
TeardownOrder(v) ==
  IF v = "loader"
    THEN <<"cache", "tracking", "forms", "gallery", "lazy", "firebase">>
    ELSE <<"cache", "tracking", "forms">>

\* the listener's calls from position j on: window.DorikX?.cleanup() skips a
\* module object that is not defined and raises a TypeError on one that has no
\* such method, which ends the listener
RECURSIVE CleanupModules(_, _, _, _, _)
CleanupModules(calls, order, j, present, methods) ==
  IF j > Len(order) THEN [calls |-> calls, raised |-> FALSE]
  ELSE IF order[j] \notin present
    THEN CleanupModules(calls, order, j + 1, present, methods)
  ELSE IF order[j] \notin methods THEN [calls |-> calls, raised |-> TRUE]
  ELSE CleanupModules([calls EXCEPT ![order[j]] = @ + 1], order, j + 1, present, methods)

\* loader.js: if (window.DorikState) clearInterval of timers.cleanup and
\* timers.performance; part_000 clears no timer
ClearTimers(v, running, stored, st) ==
  IF v = "loader" /\ st THEN running \ stored ELSE running

\* part_000: if (window.DorikState?.observers.intersection) disconnect();
\* setupLazyLoading stored the observer there when DorikState was defined
DisconnectObserver(v, obs, st) ==
  IF v = "part000" /\ st /\ obs # "none" THEN "disconnected" ELSE obs

\* setupPerformanceMonitoring: the interval it starts when config.DEBUG is set
PerformanceInterval(dbg) == IF dbg THEN {"performance"} ELSE {}

\* setupPerformanceMonitoring: loader.js keeps the interval in
\* DorikState.timers.performance, part_000 keeps it nowhere
StoredPerformance(v, dbg, st) ==
  IF v = "loader" /\ dbg /\ st THEN {"performance"} ELSE {}

\* -------------------------------------------------- the dispatcher as data

\* the values of the target's data-field attribute ("none": no attribute)
DataFields == {"none", "img_main", "see_more", "order", "title"}

\* the capability methods the handlers look for
Capabilities == {"handleGalleryClick", "handleOrderClick", "handlePlatformClick",
                 "closeGallery"}

\* the module whose object defines a capability method
CapabilityOwner(m) ==
  CASE m = "handleGalleryClick"  -> "gallery"
    [] m = "closeGallery"        -> "gallery"
    [] m = "handleOrderClick"    -> "forms"
    [] m = "handlePlatformClick" -> "tracking"

\* click events: the target's data-field, whether target.closest('a[href]')
\* finds a link, and what DorikUtils.findContainerId returns for the target
\* and for that link (0: nothing)
ClickEvents ==
  {e \in [type : {"click"}, key : {""}, dataField : DataFields, link : BOOLEAN,
          targetContainer : {0, 1}, linkContainer : {0, 1}] :
     ~e.link => e.linkContainer = 0}

KeydownEvents ==
  [type : {"keydown"}, key : {"Escape", "Enter"}, dataField : {"none"}, link : {FALSE},
   targetContainer : {0}, linkContainer : {0}]

NoEvent == [type |-> "none", key |-> "", dataField |-> "none", link |-> FALSE,
            targetContainer |-> 0, linkContainer |-> 0]

\* handleGlobalClick: isMainImage || isSeeMore, isOrderButton
IsGalleryTrigger(e) == e.dataField \in {"img_main", "see_more"}
IsOrderTrigger(e) == e.dataField = "order"

\* handleGlobalClick: the handlers it calls, in order
RoutesFallThrough(e) ==
  (IF IsGalleryTrigger(e) THEN <<"gallery">> ELSE <<>>)
    \o (IF IsOrderTrigger(e) THEN <<"order">> ELSE <<>>)
    \o (IF e.link THEN <<"platform">> ELSE <<>>)
Routes(e) ==
  IF IsGalleryTrigger(e) THEN <<"gallery">>
  ELSE IF IsOrderTrigger(e) THEN <<"order">>
  ELSE IF e.link THEN <<"platform">>
  ELSE <<>>

\* if (window.DorikX?.method) window.DorikX.method(...): the method is called
\* when the module object defines it, nothing is called otherwise; calling it
\* without the check raises a TypeError when it is not defined
UncheckedCall(m, caps) ==
  [invoked |-> IF m \in caps THEN <<m>> ELSE <<>>, raised |-> m \notin caps]
CheckedCall(m, caps) ==
  [invoked |-> IF m \in caps THEN <<m>> ELSE <<>>, raised |-> FALSE]

\* a handler that returned before it reached its capability method
NoCall == [invoked |-> <<>>, raised |-> FALSE]

\* handleGalleryClick up to its await: preventDefault, findContainerId(target),
\* return without it, DorikGallery.handleGalleryClick when it is defined
HandleGalleryClickUnguarded(e, caps) ==
  [prevented |-> TRUE, call |-> CheckedCall("handleGalleryClick", caps)]
HandleGalleryClick(e, caps) ==
  [prevented |-> TRUE,
   call |-> IF e.targetContainer = 0 THEN NoCall
            ELSE CheckedCall("handleGalleryClick", caps)]

\* handleOrderClick up to its await
HandleOrderClick(e, caps) ==
  [prevented |-> TRUE,
   call |-> IF e.targetContainer = 0 THEN NoCall
            ELSE CheckedCall("handleOrderClick", caps)]

\* handlePlatformClick: findContainerId(link)
HandlePlatformClick(e, caps) ==
  [prevented |-> FALSE,
   call |-> IF e.linkContainer = 0 THEN NoCall
            ELSE CheckedCall("handlePlatformClick", caps)]

\* the handler that handleGlobalClick calls under a name
Handle(h, e, caps) ==
  CASE h = "gallery"  -> HandleGalleryClick(e, caps)
    [] h = "order"    -> HandleOrderClick(e, caps)
    [] h = "platform" -> HandlePlatformClick(e, caps)

\* the handlers of routes run one after the other; the two trigger handlers
\* are async, so what they raise does not stop handleGlobalClick
RECURSIVE RunHandlers(_, _, _)
RunHandlers(routes, e, caps) ==
  IF routes = <<>> THEN [prevented |-> FALSE, invoked |-> <<>>, raised |-> FALSE]
  ELSE LET first == Handle(Head(routes), e, caps)
           rest  == RunHandlers(Tail(routes), e, caps)
       IN  [prevented |-> first.prevented \/ rest.prevented,
            invoked |-> first.call.invoked \o rest.invoked,
            raised |-> first.call.raised \/ rest.raised]

\* handleKeydown: Escape closes the gallery when closeGallery is defined
HandleKeydownKey(e, caps) ==
  IF e.key = "Escape" THEN CheckedCall("closeGallery", caps) ELSE NoCall

\* the calls of a sequence of capability methods added to the counts
CountCalls(calls, methods) ==
  [m \in Capabilities |-> calls[m] + Cardinality({i \in 1..Len(methods) : methods[i] = m})]

\* ------------------------------------------------------------------ actions

\* a page with DorikState and preloadProducts, no BATCH_SIZE, no callback yet
LazyIdle ==
  /\ hasState = TRUE
  /\ hasPreload = TRUE
  /\ configBatchSize = 0
  /\ processedContainers = {}
  /\ tasks = [t \in Callbacks |-> IdleTask]
  /\ batched = [c \in Containers |-> 0]

\* a page without DEBUG whose modules all have their teardown method, before
\* any beforeunload
TeardownIdle ==
  /\ debug = FALSE
  /\ intervals = {}
  /\ stateTimers = {}
  /\ cleanupMethods = AllNames
  /\ cleanupCalls = [n \in AllNames |-> 0]
  /\ teardowns = 0
  /\ teardownErrors = 0

\* a page before any click or keydown
DispatchIdle ==
  /\ capabilities = Capabilities
  /\ events = 0
  /\ lastEvent = NoEvent
  /\ routed = <<>>
  /\ prevented = FALSE
  /\ invoked = <<>>
  /\ raised = FALSE
  /\ capabilityCalls = [m \in Capabilities |-> 0]

Init ==
  /\ variant \in Variants
  /\ cdnBase = DefaultCdnBase
  /\ modules = Registry(variant)
  /\ moduleKeys = RegistryKeys(variant)
  /\ loadedModules = {}
  /\ initializationPromise = "null"
  /\ performInitCount = 0
  /\ pc = "idle"
  /\ sortedModules = <<>>
  /\ loadIdx = 0
  /\ initIdx = 0
  /\ awaited = ""
  /\ scripts = [n \in AllNames |-> 0]
  /\ pending = [n \in AllNames |-> 0]
  /\ pendingOnDemand = [n \in AllNames |-> 0]
  /\ fetchLog = <<>>
  /\ attempted = <<>>
  /\ failure = [n \in AllNames |-> "none"]
  /\ hooksInvoked = <<>>
  /\ initialized = {}
  /\ readyEvents = <<>>
  /\ DORIK_READY = FALSE
  /\ callerResult = [c \in Callers |-> "idle"]
  /\ onDemandCalls = 0
  /\ lateOverrides = FALSE
  /\ observer = "none"
  /\ LazyIdle
  /\ TeardownIdle
  /\ DispatchIdle

\* init(options) by caller c; the automatic init() passes no options
CallInit(c, options) ==
  /\ callerResult[c] = "idle"
  /\ c = 0 => options = NoOptions
  /\ IF InitGuard(initializationPromise)
       THEN /\ callerResult' = ResolveCallers(Cur, {c})
            /\ lateOverrides' = (lateOverrides \/ options # NoOptions)
            /\ UNCHANGED <<variant, cdnBase, modules, moduleKeys, loadedModules,
                           initializationPromise, performInitCount, pc, sortedModules,
                           loadIdx, initIdx, awaited, scripts, pending, pendingOnDemand,
                           fetchLog, attempted, failure, hooksInvoked, initialized, readyEvents, DORIK_READY,
                           onDemandCalls, observer>>
            /\ UNCHANGED lazyVars
            /\ UNCHANGED <<teardownVars, dispatchVars>>
       ELSE \* _performInit(options) up to its first await
            LET base   == CdnOverride(cdnBase, options)
                mods   == ObjectAssign(modules, options)
                keys   == ObjectAssignKeys(moduleKeys, options)
                sorted == SortByPriority(keys, mods)
                s      == LoadStep([Cur EXCEPT !.promise = "pending"], 1, mods, sorted,
                                   base, InitOrder(variant))
            IN  /\ cdnBase' = base
                /\ modules' = mods
                /\ moduleKeys' = keys
                /\ sortedModules' = sorted
                /\ performInitCount' = performInitCount + 1
                /\ Apply(s)
                /\ callerResult' = ResolveCallers(s, {c})
                /\ UNCHANGED <<variant, onDemandCalls, lateOverrides>>
                /\ UNCHANGED lazyVars
                /\ UNCHANGED <<teardownVars, dispatchVars>>

\* onload of the script the startup sequence awaits
ScriptLoad ==
  /\ pc = "fetching"
  /\ LET s == AfterScriptLoad(Cur, modules, sortedModules, cdnBase, InitOrder(variant))
     IN  Apply(s) /\ callerResult' = ResolveCallers(s, {})
  /\ UNCHANGED <<variant, cdnBase, modules, moduleKeys, performInitCount, sortedModules,
                 onDemandCalls, lateOverrides>>
  /\ UNCHANGED lazyVars
  /\ UNCHANGED <<teardownVars, dispatchVars>>

\* onerror of the script the startup sequence awaits
ScriptError ==
  /\ pc = "fetching"
  /\ LET s == AfterScriptError(Cur, modules, sortedModules, cdnBase, InitOrder(variant))
     IN  Apply(s) /\ callerResult' = ResolveCallers(s, {})
  /\ UNCHANGED <<variant, cdnBase, modules, moduleKeys, performInitCount, sortedModules,
                 onDemandCalls, lateOverrides>>
  /\ UNCHANGED lazyVars
  /\ UNCHANGED <<teardownVars, dispatchVars>>

\* the init hook that initializeModule awaits returns or resolves
HookResolve ==
  /\ pc = "hook"
  /\ LET s == AfterHookResolve(Cur, modules, InitOrder(variant))
     IN  Apply(s) /\ callerResult' = ResolveCallers(s, {})
  /\ UNCHANGED <<variant, cdnBase, modules, moduleKeys, performInitCount, sortedModules,
                 onDemandCalls, lateOverrides>>
  /\ UNCHANGED lazyVars
  /\ UNCHANGED <<teardownVars, dispatchVars>>

\* the init hook that initializeModule awaits throws or rejects
HookReject ==
  /\ pc = "hook"
  /\ LET s == AfterHookReject(Cur, modules, InitOrder(variant))
     IN  Apply(s) /\ callerResult' = ResolveCallers(s, {})
  /\ UNCHANGED <<variant, cdnBase, modules, moduleKeys, performInitCount, sortedModules,
                 onDemandCalls, lateOverrides>>
  /\ UNCHANGED lazyVars
  /\ UNCHANGED <<teardownVars, dispatchVars>>

\* loadModule(name, this.modules[name]) called from outside the startup sequence
LoadModuleOnDemand(name) ==
  /\ onDemandCalls < MaxOnDemand
  /\ name \in DOMAIN modules
  /\ onDemandCalls' = onDemandCalls + 1
  /\ LET s == LoadModule(Cur, name, modules[name], cdnBase, "ondemand")
     IN  scripts' = s.scripts /\ pending' = s.pending
         /\ pendingOnDemand' = s.pendingOnDemand
  /\ UNCHANGED <<variant, cdnBase, modules, moduleKeys, loadedModules,
                 initializationPromise, performInitCount, pc, sortedModules, loadIdx,
                 initIdx, awaited, fetchLog, attempted, failure, hooksInvoked, initialized,
                 readyEvents, DORIK_READY, callerResult, lateOverrides, observer>>
  /\ UNCHANGED lazyVars
  /\ UNCHANGED <<teardownVars, dispatchVars>>

\* onload or onerror of a script that an on-demand loadModule awaits: its promise
\* settles, the loader's state is not touched
OnDemandSettle(name) ==
  /\ pendingOnDemand[name] > 0
  /\ pendingOnDemand' = [pendingOnDemand EXCEPT ![name] = @ - 1]
  /\ pending' = [pending EXCEPT ![name] = @ - 1]
  /\ UNCHANGED <<variant, cdnBase, modules, moduleKeys, loadedModules,
                 initializationPromise, performInitCount, pc, sortedModules, loadIdx,
                 initIdx, awaited, scripts, fetchLog, attempted, failure, hooksInvoked,
                 initialized, readyEvents, DORIK_READY, callerResult, onDemandCalls,
                 lateOverrides, observer>>
  /\ UNCHANGED lazyVars
  /\ UNCHANGED <<teardownVars, dispatchVars>>

\* the observer delivers entries: handleIntersection up to its first await
HandleIntersection(t, visible, scrollY, viewportHeight) ==
  /\ observer = "observing"
  /\ tasks[t].state = "idle"
  /\ \A u \in Callbacks : u < t => tasks[u].state # "idle"
  /\ \E list \in {SortByDistance(CollectContainers(visible, scrollY, viewportHeight,
                                                    processedContainers))} :
       \E l \in {RunBatches([LazyCur(t) EXCEPT !.task.list = list,
                                               !.task.k = Len(list)], 0)} :
         ApplyLazy(t, l)
  /\ UNCHANGED <<hasState, hasPreload, configBatchSize>>
  /\ UNCHANGED startupVars
  /\ UNCHANGED <<teardownVars, dispatchVars>>

\* preloadProducts of task t's batch resolves: the ids are marked, next batch
BatchResolve(t) ==
  /\ tasks[t].state = "awaiting"
  /\ \E l \in {AfterBatchResolve(LazyCur(t))} : ApplyLazy(t, l)
  /\ UNCHANGED <<hasState, hasPreload, configBatchSize>>
  /\ UNCHANGED startupVars
  /\ UNCHANGED <<teardownVars, dispatchVars>>

\* preloadProducts of task t's batch rejects: the catch logs it, next batch
BatchReject(t) ==
  /\ tasks[t].state = "awaiting"
  /\ \E l \in {AfterBatchReject(LazyCur(t))} : ApplyLazy(t, l)
  /\ UNCHANGED <<hasState, hasPreload, configBatchSize>>
  /\ UNCHANGED startupVars
  /\ UNCHANGED <<teardownVars, dispatchVars>>

Next ==
  \/ \E c \in Callers, options \in OptionSets : CallInit(c, options)
  \/ ScriptLoad
  \/ ScriptError
  \/ HookResolve
  \/ HookReject
  \/ \E name \in OnDemandNames : LoadModuleOnDemand(name)
  \/ \E name \in OnDemandNames : OnDemandSettle(name)

Spec == Init /\ [][Next]_vars

\* the loader of file v after the automatic init() has run to the end: the
\* scripts of the optional modules in failed did not load, every other script
\* loaded and every init hook resolved
SucceededWithout(v, failed) ==
  /\ variant = v
  /\ cdnBase = DefaultCdnBase
  /\ modules = Registry(v)
  /\ moduleKeys = RegistryKeys(v)
  /\ sortedModules = RegistryKeys(v)
  /\ performInitCount = 1
  /\ callerResult = [c \in Callers |-> IF c = 0 THEN "true" ELSE "idle"]
  /\ onDemandCalls = 0
  /\ lateOverrides = FALSE
  /\ pc = "done"
  /\ loadIdx = Len(RegistryKeys(v)) + 1
  /\ initIdx = Len(InitOrder(v)) + 1
  /\ awaited = ""
  /\ loadedModules = (DOMAIN Registry(v)) \ failed
  /\ attempted = RegistryKeys(v)
  /\ failure = [n \in AllNames |-> IF n \in failed THEN "ModuleFetchFailed" ELSE "none"]
  /\ scripts = [n \in AllNames |-> IF n \in DOMAIN Registry(v) THEN 1 ELSE 0]
  /\ pending = [n \in AllNames |-> 0]
  /\ pendingOnDemand = [n \in AllNames |-> 0]
  /\ fetchLog = [i \in 1..Len(RegistryKeys(v)) |->
                   [name |-> RegistryKeys(v)[i],
                    url |-> <<DefaultCdnBase, Registry(v)[RegistryKeys(v)[i]].file>>]]
  /\ hooksInvoked = SelectSeq(InitOrder(v), LAMBDA n : n \notin failed)
  /\ initialized = (DOMAIN Registry(v)) \ failed
  /\ readyEvents = <<(DOMAIN Registry(v)) \ failed>>
  /\ DORIK_READY = TRUE
  /\ initializationPromise = "true"
  /\ observer = IF v = "part000" THEN "observing" ELSE "none"

\* the loader of part_000 after the automatic init() has run to the end with
\* every script loaded and every init hook resolved
StartupSucceeded == SucceededWithout("part000", {})

\* optional modules no other module depends on: their fetch can fail alone
Expendable(v) ==
  IF v = "loader" THEN {"tracking", "gallery", "forms", "lazy"} ELSE {"gallery", "forms"}

\* the page of part_000 after a successful startup: the observer observes the
\* containers; what the page's other scripts define (DorikState,
\* preloadProducts, BATCH_SIZE) varies
InitLazy ==
  /\ StartupSucceeded
  /\ hasState \in BOOLEAN
  /\ hasPreload \in BOOLEAN
  /\ configBatchSize \in {0, 1, 2}
  /\ processedContainers = {}
  /\ tasks = [t \in Callbacks |-> IdleTask]
  /\ batched = [c \in Containers |-> 0]
  /\ TeardownIdle
  /\ DispatchIdle

NextLazy ==
  \/ \E t \in Callbacks, visible \in SUBSET Containers, scrollY \in ScrollPositions,
        viewportHeight \in InnerHeights :
          HandleIntersection(t, visible, scrollY, viewportHeight)
  \/ \E t \in Callbacks : BatchResolve(t)
  \/ \E t \in Callbacks : BatchReject(t)

SpecLazy == InitLazy /\ [][NextLazy]_vars

\* beforeunload: the listener that setupCleanupHandlers (loader.js) or
\* setupCleanup (part_000) registered once the modules were initialized
Teardown ==
  /\ initializationPromise = "true"
  /\ teardowns < MaxTeardowns
  /\ teardowns' = teardowns + 1
  /\ \E r \in {CleanupModules(cleanupCalls, TeardownOrder(variant), 1, loadedModules,
                               cleanupMethods)} :
       /\ cleanupCalls' = r.calls
       /\ IF r.raised
            THEN /\ teardownErrors' = teardownErrors + 1
                 /\ UNCHANGED <<intervals, observer>>
            ELSE /\ intervals' = ClearTimers(variant, intervals, stateTimers, hasState)
                 /\ observer' = DisconnectObserver(variant, observer, hasState)
                 /\ UNCHANGED teardownErrors
  /\ UNCHANGED <<debug, stateTimers, cleanupMethods>>
  /\ UNCHANGED <<variant, cdnBase, modules, moduleKeys, loadedModules,
                 initializationPromise, performInitCount, pc, sortedModules, loadIdx,
                 initIdx, awaited, scripts, pending, pendingOnDemand, fetchLog, attempted,
                 failure, hooksInvoked, initialized, readyEvents, DORIK_READY,
                 callerResult, onDemandCalls, lateOverrides>>
  /\ UNCHANGED lazyVars
  /\ UNCHANGED dispatchVars

\* the page after a successful startup of either file, before any
\* beforeunload: which optional scripts failed, whether DEBUG is set, whether
\* another script keeps a cleanup interval in DorikState.timers and which
\* module objects lack the teardown method varies. The config hook of
\* loader.js passed, so DorikState is defined there.
InitTeardown ==
  /\ \E v \in Variants : \E failed \in SUBSET Expendable(v) : SucceededWithout(v, failed)
  /\ hasState \in (IF variant = "loader" THEN {TRUE} ELSE BOOLEAN)
  /\ hasPreload = TRUE
  /\ configBatchSize = 0
  /\ processedContainers = {}
  /\ tasks = [t \in Callbacks |-> IdleTask]
  /\ batched = [c \in Containers |-> 0]
  /\ debug \in BOOLEAN
  /\ \E other \in (IF hasState THEN SUBSET {"cleanup"} ELSE {{}}) :
       /\ intervals = PerformanceInterval(debug) \cup other
       /\ stateTimers = StoredPerformance(variant, debug, hasState) \cup other
  /\ \E missing \in SUBSET {"cache", "forms", "lazy"} : cleanupMethods = AllNames \ missing
  /\ cleanupCalls = [n \in AllNames |-> 0]
  /\ teardowns = 0
  /\ teardownErrors = 0
  /\ DispatchIdle

NextTeardown == Teardown

SpecTeardown == InitTeardown /\ [][NextTeardown]_vars

\* a click reaches the document: handleGlobalClick and the handlers it calls,
\* each up to its await of the capability method
HandleGlobalClick(e) ==
  /\ initializationPromise = "true"
  /\ variant = "loader"
  /\ events < MaxEvents
  /\ events' = events + 1
  /\ lastEvent' = e
  /\ routed' = Routes(e)
  /\ \E r \in {RunHandlers(Routes(e), e, capabilities)} :
       /\ prevented' = r.prevented
       /\ invoked' = r.invoked
       /\ raised' = r.raised
       /\ capabilityCalls' = CountCalls(capabilityCalls, r.invoked)
  /\ UNCHANGED capabilities
  /\ UNCHANGED startupVars
  /\ UNCHANGED lazyVars
  /\ UNCHANGED teardownVars

\* a keydown reaches the document: handleKeydown
HandleKeydown(e) ==
  /\ initializationPromise = "true"
  /\ variant = "loader"
  /\ events < MaxEvents
  /\ events' = events + 1
  /\ lastEvent' = e
  /\ routed' = <<>>
  /\ prevented' = FALSE
  /\ invoked' = HandleKeydownKey(e, capabilities).invoked
  /\ raised' = HandleKeydownKey(e, capabilities).raised
  /\ capabilityCalls' = CountCalls(capabilityCalls, HandleKeydownKey(e, capabilities).invoked)
  /\ UNCHANGED capabilities
  /\ UNCHANGED startupVars
  /\ UNCHANGED lazyVars
  /\ UNCHANGED teardownVars

\* the page of loader.js after a successful startup, before any click or
\* keydown: which optional scripts failed and which capability methods the
\* loaded module objects define varies
InitDispatch ==
  /\ \E failed \in SUBSET Expendable("loader") : SucceededWithout("loader", failed)
  /\ LazyIdle
  /\ TeardownIdle
  /\ capabilities \in SUBSET {m \in Capabilities : CapabilityOwner(m) \in loadedModules}
  /\ events = 0
  /\ lastEvent = NoEvent
  /\ routed = <<>>
  /\ prevented = FALSE
  /\ invoked = <<>>
  /\ raised = FALSE
  /\ capabilityCalls = [m \in Capabilities |-> 0]

NextDispatch ==
  \/ \E e \in ClickEvents : HandleGlobalClick(e)
  \/ \E e \in KeydownEvents : HandleKeydown(e)

SpecDispatch == InitDispatch /\ [][NextDispatch]_vars


\* ------------------------------------------------- vocabulary of the claims

RequiredNames == {n \in DOMAIN modules : modules[n].required}
OptionalNames == {n \in DOMAIN modules : ~modules[n].required}
FetchedNames == {fetchLog[i].name : i \in 1..Len(fetchLog)}
AttemptedNames == {attempted[i] : i \in 1..Len(attempted)}
\* position of a name in a sequence of names (0: not in it)
IndexIn(seq, n) == IF \E i \in 1..Len(seq) : seq[i] = n
                     THEN CHOOSE i \in 1..Len(seq) : seq[i] = n ELSE 0
PromiseValue == IF Settled(initializationPromise) THEN initializationPromise ELSE "pending"

\* ----------------------------------------------------------------- claims

\* C1: however many times init() is called, while the first call is in flight
\* or after it settled, _performInit runs once, every caller receives the
\* result of that one run, and the startup sequence's fetch attempts are those
\* of one pass over the sorted descriptors (no module is fetched twice).
C1_SingleStartupSequence ==
  /\ performInitCount <= 1
  /\ (\E c \in Callers : callerResult[c] # "idle") => performInitCount = 1
  /\ \A c \in Callers : callerResult[c] # "idle" => callerResult[c] = PromiseValue
  /\ \A i, j \in 1..Len(fetchLog) : fetchLog[i].name = fetchLog[j].name => i = j
  /\ \A i \in 1..Len(attempted) : attempted[i] = sortedModules[i]
  /\ \A n \in AllNames : scripts[n] - (IF n \in FetchedNames THEN 1 ELSE 0) <= onDemandCalls

\* two init() calls share a sequence that is still in flight
C1_Witness ==
  /\ \A c \in Callers : callerResult[c] = "pending"
  /\ pc = "fetching"
  /\ Len(fetchLog) >= 2

\* C2: init() never rejects: whatever the fetch and init-hook outcomes, the
\* promise settles to true exactly when every required module is loaded and
\* initialized, and to false otherwise.
C2_InitNeverRejects ==
  /\ initializationPromise # "rejected"
  /\ \A c \in Callers : callerResult[c] # "rejected"
  /\ pc = "done" =>
       /\ initializationPromise \in {"true", "false"}
       /\ initializationPromise = "true"
            <=> \A n \in RequiredNames : n \in loadedModules /\ n \in initialized

\* a required module's init hook failed and init() returned false to its callers
C2_Witness ==
  /\ pc = "done"
  /\ \E n \in RequiredNames : failure[n] = "ModuleInitFailed"
  /\ \A c \in Callers : callerResult[c] = "false"

\* C3 as claimed: once the sequence has ended, every B with a dependency A
\* outside loaded was never fetched and is recorded as DependencyUnmet; a
\* required B means false and no ReadySignal, an optional B is not in loaded.
C3_Original ==
  pc = "done" =>
    \A B \in DOMAIN modules : \A A \in modules[B].depends :
      A \notin loadedModules =>
        /\ B \notin FetchedNames
        /\ failure[B] = "DependencyUnmet"
        /\ B \in RequiredNames => initializationPromise = "false" /\ ~DORIK_READY
        /\ B \in OptionalNames => B \notin loadedModules

\* C3 (amended): B is recorded as DependencyUnmet when the sequence reaches
\* B's descriptor; an abort on an earlier required module leaves B unrecorded.
\* After an optional B the loop is at the next descriptor.
C3_DependencyUnmet ==
  /\ pc = "done" =>
       \A B \in DOMAIN modules : \A A \in modules[B].depends :
         A \notin loadedModules =>
           /\ B \notin FetchedNames
           /\ B \in AttemptedNames => failure[B] = "DependencyUnmet"
           /\ B \notin AttemptedNames => failure[B] = "none"
           /\ B \in RequiredNames => initializationPromise = "false" /\ ~DORIK_READY
                                     /\ readyEvents = <<>>
           /\ B \in OptionalNames => B \notin loadedModules
  /\ \A B \in OptionalNames :
       failure[B] = "DependencyUnmet" =>
         /\ B \notin FetchedNames
         /\ B \notin loadedModules
         /\ LET i == IndexIn(attempted, B)
            IN  IF i < Len(sortedModules)
                  THEN Len(attempted) > i /\ attempted[i + 1] = sortedModules[i + 1]
                  ELSE pc \in {"hook", "done"}

\* an optional module was skipped for an unmet dependency and the sequence went
\* on to success without it
C3_Witness ==
  /\ pc = "done"
  /\ initializationPromise = "true"
  /\ \E B \in OptionalNames : failure[B] = "DependencyUnmet" /\ B \notin loadedModules

\* C4: the load attempts are in non-decreasing priority order, and attempts of
\* equal priority are in the order of registration (the property order of the
\* modules object after the options were merged in).
C4_PriorityOrder ==
  \A i, j \in 1..Len(attempted) :
    i < j =>
      /\ modules[attempted[i]].priority <= modules[attempted[j]].priority
      /\ modules[attempted[i]].priority = modules[attempted[j]].priority
           => IndexIn(moduleKeys, attempted[i]) < IndexIn(moduleKeys, attempted[j])

\* descriptors of equal priority, one of them merged in by options, were attempted
C4_Witness ==
  \E i, j \in 1..Len(attempted) :
    /\ i < j
    /\ modules[attempted[i]].priority = modules[attempted[j]].priority
    /\ attempted[j] \notin DOMAIN Registry(variant)

\* C5: dorik:ready is dispatched at most once and DORIK_READY is set with it,
\* only when every required module is loaded and initialized; a sequence in
\* which nothing but optional fetches failed ends with the signal, whose
\* loadedModules leaves the failed modules out; the flag is never reset.
C5_ReadyState ==
  /\ Len(readyEvents) <= 1
  /\ DORIK_READY <=> Len(readyEvents) = 1
  /\ DORIK_READY <=> initializationPromise = "true"
  /\ DORIK_READY =>
       /\ \A n \in RequiredNames : n \in loadedModules /\ n \in initialized
       /\ readyEvents[1] = loadedModules
  /\ ( /\ pc = "done"
       /\ \A n \in AllNames : failure[n] # "none" =>
            failure[n] = "ModuleFetchFailed" /\ n \in OptionalNames )
     => /\ Len(readyEvents) = 1
        /\ \A n \in AllNames : failure[n] # "none" => n \notin readyEvents[1]

C5_ReadySignal == [](C5_ReadyState) /\ [][DORIK_READY => DORIK_READY']_vars

\* the signal fired although an optional module's fetch failed
C5_Witness ==
  /\ DORIK_READY
  /\ \E n \in OptionalNames : failure[n] = "ModuleFetchFailed" /\ n \notin readyEvents[1]

\* C6: a failed fetch of a required module ends the sequence at once: it is
\* the last script the sequence appended, no init hook ran, no ReadySignal,
\* init() is false. With the registry of loader.js and firebase failing,
\* gallery is never fetched.
C6_RequiredFetchAborts ==
  /\ \A n \in RequiredNames :
       failure[n] = "ModuleFetchFailed" =>
         /\ pc = "done"
         /\ initializationPromise = "false"
         /\ fetchLog[Len(fetchLog)].name = n
         /\ attempted[Len(attempted)] = n
         /\ hooksInvoked = <<>>
         /\ initialized = {}
         /\ readyEvents = <<>> /\ ~DORIK_READY
         /\ \A c \in Callers : callerResult[c] \in {"idle", "false"}
  /\ (modules = RegistryLoader /\ failure["firebase"] = "ModuleFetchFailed")
       => /\ "gallery" \notin FetchedNames
          /\ FetchedNames = {"config", "cache", "firebase"}

\* config and cache loaded, firebase's fetch failed, with the registry of loader.js
C6_Witness ==
  /\ modules = RegistryLoader
  /\ failure["firebase"] = "ModuleFetchFailed"
  /\ loadedModules = {"config", "cache"}
  /\ callerResult[0] = "false"

\* C7: a failed fetch of an optional module is recovered in the loop: the
\* module is not in loaded, the loop is at the next descriptor (or past the
\* last one), and init() is false only if some required module failed.
C7_OptionalFetchRecovered ==
  /\ \A n \in OptionalNames :
       failure[n] = "ModuleFetchFailed" =>
         /\ n \notin loadedModules
         /\ LET i == IndexIn(attempted, n)
            IN  IF i < Len(sortedModules)
                  THEN Len(attempted) > i /\ attempted[i + 1] = sortedModules[i + 1]
                  ELSE pc \in {"hook", "done"}
  /\ initializationPromise = "false" => \E m \in RequiredNames : failure[m] # "none"

\* an optional module's fetch failed, a later module was loaded, init() is true
C7_Witness ==
  /\ initializationPromise = "true"
  /\ \E n \in OptionalNames :
       /\ failure[n] = "ModuleFetchFailed"
       /\ \E m \in loadedModules : IndexIn(attempted, m) > IndexIn(attempted, n)

\* C8 as claimed: loadModule for a module that is in loaded injects no script
\* element.
C8_LoadModuleIdempotent ==
  [][\A n \in AllNames : n \in loadedModules => scripts'[n] = scripts[n]]_vars

\* C9 as claimed: at most one fetch is in flight per module name.
C9_SingleFetchInFlight == \A n \in AllNames : pending[n] <= 1

\* C10 as claimed: ProcessedSet only grows, and a container that is in it is
\* in no batch that processBatch is called with afterwards.
C10_ProcessedNeverBatchedAgain ==
  [][/\ processedContainers \subseteq processedContainers'
     /\ \A id \in processedContainers : batched'[id] = batched[id]]_vars

\* ceil(k / s)
Ceil(k, s) == (k + s - 1) \div s

\* ascending distance, equal distances in DOM order
SortedByDistance(list) ==
  \A a, b \in 1..Len(list) :
    a < b => /\ list[a].distance <= list[b].distance
             /\ list[a].distance = list[b].distance => list[a].id < list[b].id

\* C11: a callback with K eligible containers and batch size S calls
\* processBatch ceil(K/S) times; batch n is the slice at offset (n-1)*S of the
\* list sorted by distance (ties in DOM order) and has 1..S entries; while a
\* batch's fetch is awaited the callback dispatches no further batch.
C11_BatchState ==
  \A t \in Callbacks :
    LET T == tasks[t]
    IN  /\ T.state = "awaiting" =>
             /\ T.k = Len(T.list)
             /\ T.i = (T.n - 1) * BatchSize
             /\ T.i < T.k
             /\ Len(Slice(T.list, T.i, BatchSize)) \in 1..BatchSize
             /\ SortedByDistance(T.list)
             /\ T.n <= Ceil(T.k, BatchSize)
        /\ T.state = "done" => T.n = Ceil(T.k, BatchSize)

C11_Batches ==
  /\ [](C11_BatchState)
  /\ [][\A t \in Callbacks :
          /\ hasPreload => tasks'[t].n <= tasks[t].n + 1
          /\ (tasks[t].state = "awaiting" /\ tasks'[t].state = "awaiting")
               => tasks'[t].list = tasks[t].list]_vars

\* three eligible containers, two of them at the same distance, batch size 2:
\* the second of ceil(3/2) batches is in flight
C11_Witness ==
  \E t \in Callbacks :
    /\ tasks[t].state = "awaiting"
    /\ tasks[t].k = 3 /\ BatchSize = 2 /\ tasks[t].n = 2
    /\ tasks[t].list[1].distance = tasks[t].list[2].distance


\* container c is in a batch whose preloadProducts has not settled yet
InFlight(c) ==
  \E t \in Callbacks :
    tasks[t].state = "awaiting" /\ c \in BatchIds(tasks[t].list, tasks[t].i)

\* C12: every container id of a dispatched batch is marked processed whether
\* the fetch of the batch succeeds or fails: with the processed set present,
\* an id that was dispatched and whose batch has settled is in
\* processedContainers
C12_SettledBatchMarked ==
  hasState =>
    \A c \in Containers :
      (batched[c] > 0 /\ ~InFlight(c)) => c \in processedContainers

\* C13: a rejected batch fetch is caught: the invocation of handleIntersection
\* never ends rejected, the step that settles batch N with a rejection
\* dispatches batch N+1 of the same list when there is one, an invocation that
\* returned has dispatched all ceil(K/S) batches, and settling a batch leaves
\* the observer as it was
C13_FailureCaught ==
  /\ [](\A t \in Callbacks :
          /\ tasks[t].state \in {"idle", "awaiting", "done"}
          /\ tasks[t].state = "done" => tasks[t].n = Ceil(tasks[t].k, BatchSize))
  /\ [][\A t \in Callbacks :
          (tasks[t].state = "awaiting" /\ tasks'[t] # tasks[t]) =>
            /\ observer' = observer
            /\ tasks'[t].caught =>
                 /\ tasks'[t].state = "awaiting"
                 /\ tasks'[t].list = tasks[t].list
                 /\ tasks'[t].i = tasks[t].i + BatchSize
                 /\ tasks'[t].n = tasks[t].n + 1
            /\ tasks'[t].state = "done" => tasks[t].i + BatchSize >= tasks[t].k]_vars

\* batch 1 of an invocation was rejected and its batch 2 is in flight, while
\* the observer is still observing
C13_Witness ==
  \E t \in Callbacks :
    /\ tasks[t].state = "awaiting" /\ tasks[t].caught
    /\ tasks[t].n = 2 /\ tasks[t].k >= 2
    /\ observer = "observing"


\* the fetches of name n that the startup sequence started and that have not
\* settled
StartupPending(n) == pending[n] - pendingOnDemand[n]

\* the load attempt of n by the startup sequence has settled
LoadSettled(n) ==
  /\ StartupPending(n) = 0
  /\ n \in loadedModules \/ failure[n] \in {"DependencyUnmet", "ModuleFetchFailed"}

\* C15: load attempts are strictly sequential: at most one fetch of the
\* startup sequence is pending, it is the fetch of the module attempted last
\* and the sequence waits for it, and when a module's dependency check has
\* been evaluated every module attempted before it has settled
C15_Sequential ==
  /\ \A n \in AllNames : StartupPending(n) \in {0, 1}
  /\ Cardinality({n \in AllNames : StartupPending(n) > 0}) <= 1
  /\ \A n \in AllNames :
       StartupPending(n) > 0 =>
         /\ pc = "fetching" /\ awaited = n
         /\ attempted # <<>> /\ attempted[Len(attempted)] = n
  /\ \A i \in 1..(Len(attempted) - 1) : LoadSettled(attempted[i])

\* the sequence waits for its fourth fetch after an earlier one failed and
\* an earlier one succeeded, while an on-demand fetch is pending as well
C15_Witness ==
  /\ pc = "fetching" /\ Len(attempted) >= 4
  /\ \E i \in 1..(Len(attempted) - 1) : failure[attempted[i]] = "ModuleFetchFailed"
  /\ \E i \in 1..(Len(attempted) - 1) : attempted[i] \in loadedModules
  /\ \E n \in AllNames : pendingOnDemand[n] > 0

\* number of times n occurs in seq
Count(seq, n) == Cardinality({i \in 1..Len(seq) : seq[i] = n})

\* the canonical initialization order of the two files (part_000 has no lazy)
CanonicalOrder == <<"config", "cache", "firebase", "tracking", "gallery", "forms", "lazy">>

\* every load attempt of the startup sequence has settled
LoadPhaseOver ==
  /\ sortedModules # <<>> /\ loadIdx > Len(sortedModules)
  /\ \A n \in AllNames : StartupPending(n) = 0

\* init hooks were invoked in canonical order, each after the one before it
\* had settled
HooksInOrder ==
  /\ \A a \in 1..Len(hooksInvoked) : IndexIn(CanonicalOrder, hooksInvoked[a]) > 0
  /\ \A a, b \in 1..Len(hooksInvoked) :
       a < b => IndexIn(CanonicalOrder, hooksInvoked[a]) < IndexIn(CanonicalOrder, hooksInvoked[b])
  /\ \A a \in 1..(Len(hooksInvoked) - 1) :
       hooksInvoked[a] \in initialized \/ failure[hooksInvoked[a]] = "ModuleInitFailed"
  /\ pc = "hook" <=> (hooksInvoked # <<>> /\
                      LET n == hooksInvoked[Len(hooksInvoked)]
                      IN  n \notin initialized /\ failure[n] # "ModuleInitFailed")

\* a required module's init hook failed before the hook of n was due
AbortedBefore(n) ==
  \E m \in DOMAIN modules :
    /\ modules[m].required /\ failure[m] = "ModuleInitFailed"
    /\ IndexIn(CanonicalOrder, m) < IndexIn(CanonicalOrder, n)

\* C16 as stated: no init hook before every load attempt settled, hooks one at
\* a time in the canonical order, and every module in loaded at the end of the
\* load phase has its init hook invoked exactly once
C16_Original ==
  /\ hooksInvoked # <<>> => LoadPhaseOver
  /\ HooksInOrder
  /\ (LoadPhaseOver /\ pc = "done") =>
       \A n \in loadedModules : Count(hooksInvoked, n) = 1

\* C16: no init hook before every load attempt settled, hooks one at a time in
\* the canonical order whatever the priorities, no hook invoked twice, and when
\* the sequence is over every loaded module that the canonical list names has
\* had its hook invoked once unless a required hook before it failed
C16_InitOrder ==
  /\ hooksInvoked # <<>> => LoadPhaseOver
  /\ HooksInOrder
  /\ \A n \in AllNames : Count(hooksInvoked, n) <= 1
  /\ (LoadPhaseOver /\ pc = "done") =>
       \A n \in loadedModules :
         IndexIn(InitOrder(variant), n) > 0 =>
           Count(hooksInvoked, n) = 1 \/ AbortedBefore(n)

\* the sequence of loader.js succeeded, tracking was attempted last and
\* initialized fourth
C16_Witness ==
  /\ pc = "done" /\ initializationPromise = "true"
  /\ Len(attempted) = 7 /\ attempted[7] = "tracking"
  /\ hooksInvoked = CanonicalOrder

\* C17: when the init hook of a required module fails the sequence is over
\* with false, that hook is the last one invoked, there is no ready signal and
\* no caller gets true; when the init hook of an optional module fails and no
\* required hook fails, the sequence ends with true and every loaded module
\* that the canonical list names after it has its hook invoked
C17_InitFailure ==
  \A n \in DOMAIN modules :
    failure[n] = "ModuleInitFailed" =>
      IF modules[n].required
        THEN /\ pc = "done" /\ initializationPromise = "false"
             /\ hooksInvoked[Len(hooksInvoked)] = n
             /\ readyEvents = <<>> /\ ~DORIK_READY
             /\ \A c \in Callers : callerResult[c] \in {"idle", "false"}
        ELSE (pc = "done" /\ ~\E m \in DOMAIN modules :
                                 modules[m].required /\ failure[m] = "ModuleInitFailed") =>
               /\ initializationPromise = "true"
               /\ Len(readyEvents) = 1
               /\ \A m \in loadedModules :
                    IndexIn(InitOrder(variant), m) > IndexIn(InitOrder(variant), n) =>
                      Count(hooksInvoked, m) = 1

\* the init hook of an optional module failed, a later hook ran and
\* resolved, and init() returned true
C17_Witness ==
  /\ initializationPromise = "true"
  /\ \E n \in DOMAIN modules, m \in initialized :
       /\ ~modules[n].required /\ failure[n] = "ModuleInitFailed"
       /\ IndexIn(hooksInvoked, n) > 0
       /\ IndexIn(hooksInvoked, n) < IndexIn(hooksInvoked, m)

\* C18: initialized is a subset of loaded, and no init hook is invoked for a
\* module that is not loaded: one that was skipped for an unmet dependency or
\* whose fetch failed
C18_InitializedLoaded ==
  /\ initialized \subseteq loadedModules
  /\ \A i \in 1..Len(hooksInvoked) :
       /\ hooksInvoked[i] \in loadedModules
       /\ failure[hooksInvoked[i]] \notin {"DependencyUnmet", "ModuleFetchFailed"}

\* a sequence that skipped one module and failed to fetch another went on to
\* initialize the loaded ones
C18_Witness ==
  /\ pc = "done" /\ initializationPromise = "true"
  /\ \E n, m \in AllNames :
       failure[n] = "DependencyUnmet" /\ failure[m] = "ModuleFetchFailed"
  /\ initialized # {} /\ initialized = loadedModules


\* the modules whose teardown method the beforeunload listener calls: defined,
\* with the method, and named by the listener
CleanedModules ==
  {n \in loadedModules \cap cleanupMethods :
     \E j \in 1..Len(TeardownOrder(variant)) : TeardownOrder(variant)[j] = n}

\* every defined module that the listener names has the teardown method
NoMethodMissing ==
  \A j \in 1..Len(TeardownOrder(variant)) :
    TeardownOrder(variant)[j] \in loadedModules =>
      TeardownOrder(variant)[j] \in cleanupMethods

\* C14: teardown is idempotent: where no module object lacks its teardown
\* method no teardown raises, and once the teardown has been invoked, however
\* often, the method of every module that has one and that the listener names
\* has been called exactly once
C14_CleanupOnce ==
  NoMethodMissing =>
    /\ teardownErrors = 0
    /\ teardowns >= 1 => \A n \in CleanedModules : cleanupCalls[n] = 1

\* the element handleGlobalClick's handler resolved a container for: the
\* target for the two triggers, the link otherwise
MatchedContainer(e) ==
  IF IsGalleryTrigger(e) \/ IsOrderTrigger(e) THEN e.targetContainer ELSE e.linkContainer

\* C19: a click is classified as gallery trigger, order trigger, link, in this
\* order, and the first match wins: at most one handler is called, it is the
\* one of the first class the target matches, and a trigger inside a link never
\* reaches the link handler or the tracking capability
C19_FirstMatchWins ==
  /\ Len(routed) <= 1
  /\ lastEvent.type = "click" =>
       /\ IsGalleryTrigger(lastEvent) => routed = <<"gallery">>
       /\ (~IsGalleryTrigger(lastEvent) /\ IsOrderTrigger(lastEvent)) => routed = <<"order">>
       /\ (~IsGalleryTrigger(lastEvent) /\ ~IsOrderTrigger(lastEvent) /\ lastEvent.link)
            => routed = <<"platform">>
       /\ (~IsGalleryTrigger(lastEvent) /\ ~IsOrderTrigger(lastEvent) /\ ~lastEvent.link)
            => routed = <<>>
       /\ (IsGalleryTrigger(lastEvent) \/ IsOrderTrigger(lastEvent)) =>
            \A i \in 1..Len(invoked) : invoked[i] # "handlePlatformClick"
  /\ Len(invoked) <= 1

\* a gallery trigger inside a link whose container resolves, with the tracking
\* capability defined, went to the gallery handler alone
C19_Witness ==
  /\ lastEvent.type = "click" /\ lastEvent.dataField = "img_main"
  /\ lastEvent.link /\ lastEvent.linkContainer = 1 /\ lastEvent.targetContainer = 1
  /\ "handlePlatformClick" \in capabilities /\ "handleGalleryClick" \in capabilities
  /\ routed = <<"gallery">> /\ invoked = <<"handleGalleryClick">>

\* C20: a click whose matched element resolves to no container is dropped: no
\* capability method is called for it, and the call counts stay as they were
C20_DroppedWithoutContainer ==
  /\ (lastEvent.type = "click" /\ MatchedContainer(lastEvent) = 0) => invoked = <<>>
  /\ [][\A e \in ClickEvents :
          (HandleGlobalClick(e) /\ MatchedContainer(e) = 0)
            => capabilityCalls' = capabilityCalls]_vars

\* a gallery trigger without container, inside a link whose container resolves,
\* with every capability defined: handled by the gallery handler and dropped
C20_Witness ==
  /\ lastEvent.type = "click" /\ lastEvent.dataField = "see_more"
  /\ lastEvent.targetContainer = 0 /\ lastEvent.link /\ lastEvent.linkContainer = 1
  /\ capabilities = Capabilities
  /\ routed = <<"gallery">> /\ prevented /\ invoked = <<>>


\* the capability method an event asks for ("": none): the one of the handler
\* it is routed to when a container resolves, closeGallery for Escape
WantedCapability(e) ==
  IF e.type = "keydown" THEN (IF e.key = "Escape" THEN "closeGallery" ELSE "")
  ELSE IF e.type # "click" \/ MatchedContainer(e) = 0 THEN ""
  ELSE IF IsGalleryTrigger(e) THEN "handleGalleryClick"
  ELSE IF IsOrderTrigger(e) THEN "handleOrderClick"
  ELSE IF e.link THEN "handlePlatformClick"
  ELSE ""

\* C21: presence is checked before routing: whatever optional modules are
\* absent, no handler raises, a capability method is called only when its
\* module is loaded and defines it, and the event that asks for a capability
\* gets it called when it is defined and nothing called when it is not
C21_PresenceChecked ==
  /\ ~raised
  /\ \A i \in 1..Len(invoked) :
       /\ invoked[i] \in capabilities
       /\ CapabilityOwner(invoked[i]) \in loadedModules
  /\ invoked = IF WantedCapability(lastEvent) \in capabilities
                 THEN <<WantedCapability(lastEvent)>> ELSE <<>>

\* with forms and gallery absent, an order click whose container resolves
\* ended without a call and without raising
C21_Witness ==
  /\ "forms" \notin loadedModules /\ "gallery" \notin loadedModules
  /\ "tracking" \in loadedModules
  /\ lastEvent.type = "click" /\ lastEvent.dataField = "order"
  /\ lastEvent.targetContainer = 1
  /\ routed = <<"order">> /\ invoked = <<>> /\ ~raised


\* the modules loader.js calls cleanup() on
ModulesWithCleanup ==
  {TeardownOrder("loader")[j] : j \in 1..Len(TeardownOrder("loader"))}

\* C22: after the teardown hook has run (on a page where no module object
\* lacks its teardown method) the intersection observer no longer observes,
\* the performance interval the orchestrator started is cleared, and the
\* teardown method of every loaded module that has one has been called
C22_TeardownClears ==
  (teardowns >= 1 /\ NoMethodMissing) =>
    /\ observer # "observing"
    /\ "performance" \notin intervals
    /\ \A n \in (loadedModules \cap cleanupMethods) \cap ModulesWithCleanup :
         cleanupCalls[n] >= 1


\* C23: over the page lifetime a container id is passed to preloadProducts in
\* at most one batch (on a page with DorikState and preloadProducts), also when
\* a second callback arrives while a batch of an earlier one awaits its fetch
C23_FetchedAtMostOnce ==
  (hasState /\ hasPreload) => \A c \in Containers : batched[c] <= 1


\* every dependency of every loaded module is loaded
DependencyClosed ==
  \A m \in loadedModules : m \in DOMAIN modules /\ modules[m].depends \subseteq loadedModules

\* C24: loaded is dependency-closed in every reachable state and only grows,
\* also when the sequence aborts
C24_LoadedClosedAndGrowing ==
  /\ [](DependencyClosed)
  /\ [][loadedModules \subseteq loadedModules']_vars

\* the sequence aborted after it had loaded a module with dependencies, and
\* what it had loaded is still there
C24_Witness ==
  /\ pc = "done" /\ initializationPromise = "false"
  /\ \E m \in loadedModules : modules[m].depends # {}
  /\ \E n \in AllNames : failure[n] = "ModuleFetchFailed"


\* C25: an init(options) call made once a startup sequence has been started
\* changes neither cdnBase, nor the descriptors, nor loaded, nor the fetch
\* attempts, whatever its options are, and starts no second sequence (an init
\* call is the step that takes a caller out of "idle")
C25_LaterOptionsIgnored ==
  [][(/\ initializationPromise # "null"
      /\ \E c \in Callers : callerResult[c] = "idle" /\ callerResult'[c] # "idle") =>
         /\ cdnBase' = cdnBase
         /\ modules' = modules /\ moduleKeys' = moduleKeys
         /\ sortedModules' = sortedModules
         /\ loadedModules' = loadedModules
         /\ fetchLog' = fetchLog /\ attempted' = attempted /\ scripts' = scripts
         /\ performInitCount' = performInitCount]_vars

\* after the automatic init() started the sequence, a second init call with
\* overrides returned, and the loader still has its built-in source base and
\* descriptors
C25_Witness ==
  /\ lateOverrides
  /\ callerResult[0] # "idle" /\ \E c \in Callers : c # 0 /\ callerResult[c] # "idle"
  /\ cdnBase = DefaultCdnBase /\ modules = Registry(variant)
  /\ performInitCount = 1

====
